---- MODULE Spec2Model ----
(***************************************************************************)
(* A model of src/_worker.js: the Cloudflare Worker that gates requests,   *)
(* resolves the upstream host, forwards the request and rewrites host      *)
(* names in headers and bodies.                                            *)
(*                                                                         *)
(* Strings are sequences of one-character strings, so that the regular     *)
(* expressions, String.includes, String.startsWith and toLowerCase are     *)
(* computed character by character, as the code computes them.             *)
(***************************************************************************)
EXTENDS Integers, Sequences, FiniteSets, TLC

\* ------------------------------------------------------------------------
\* Bounds of the model
\* ------------------------------------------------------------------------

\* The texts a substitution is applied to are built from at most this many
\* tokens (host names, separators, label characters).
MaxTokens == 3

\* ------------------------------------------------------------------------
\* Characters and strings
\* ------------------------------------------------------------------------

LowerCase ==
  <<"a","b","c","d","e","f","g","h","i","j","k","l","m",
    "n","o","p","q","r","s","t","u","v","w","x","y","z">>

UpperCase ==
  <<"A","B","C","D","E","F","G","H","I","J","K","L","M",
    "N","O","P","Q","R","S","T","U","V","W","X","Y","Z">>

Digits == <<"0","1","2","3","4","5","6","7","8","9">>

Range(s) == { s[i] : i \in DOMAIN s }

\* The characters \w stands for, and on which \b rests.
WordChars == Range(LowerCase) \cup Range(UpperCase) \cup Range(Digits) \cup {"_"}

\* The characters a regular expression's "." does not match.
LineTerminators == {"\n", "\r"}

\* s.includes(sub) at position i.
OccursAt(s, sub, i) ==
  /\ i >= 1
  /\ i + Len(sub) - 1 <= Len(s)
  /\ \A k \in 1..Len(sub) : s[i + k - 1] = sub[k]

includes(s, sub) == \E i \in 1..(Len(s) + 1) : OccursAt(s, sub, i)

startsWith(s, prefix) == OccursAt(s, prefix, 1)

toLowerCaseChar(c) ==
  IF \E i \in DOMAIN UpperCase : UpperCase[i] = c
  THEN LowerCase[CHOOSE i \in DOMAIN UpperCase : UpperCase[i] = c]
  ELSE c

toLowerCase(s) == [i \in DOMAIN s |-> toLowerCaseChar(s[i])]

\* ------------------------------------------------------------------------
\* The host-name regular expression  (?<!\.)\bHOST\b  and String.replace
\* ------------------------------------------------------------------------

IsWordAt(text, i) == i >= 1 /\ i <= Len(text) /\ text[i] \in WordChars

\* \b between positions i-1 and i.
WordBoundary(text, i) == IsWordAt(text, i - 1) # IsWordAt(text, i)

\* One character of the interpolated host name, as the regular expression
\* reads it: the host is pasted into the pattern unescaped, so its "." is the
\* wildcard; letters, digits and "-" stand for themselves.
PatternCharMatches(pc0, c) ==
  IF pc0 = "." THEN c \notin LineTerminators ELSE c = pc0

\* The characters of `host` match the text from position i on.
HostCharsMatchAt(text, host, i) ==
  /\ i >= 1
  /\ i + Len(host) - 1 <= Len(text)
  /\ \A k \in 1..Len(host) : PatternCharMatches(host[k], text[i + k - 1])

\* (?<!\.)
NotPrecededByDot(text, i) == i = 1 \/ text[i - 1] # "."

\* new RegExp(`(?<!\\.)\\b${host}\\b`) matches at position i.
HostRegExpMatchAt(text, host, i) ==
  /\ HostCharsMatchAt(text, host, i)
  /\ NotPrecededByDot(text, i)
  /\ WordBoundary(text, i)
  /\ WordBoundary(text, i + Len(host))

\* The start of every match the "g" flag finds: leftmost first, the search
\* resuming after the end of the previous match.
RECURSIVE HostMatchesFrom(_, _, _)
HostMatchesFrom(text, host, i) ==
  IF \E j \in i..Len(text) : HostRegExpMatchAt(text, host, j)
  THEN LET j == CHOOSE j \in i..Len(text) :
                  /\ HostRegExpMatchAt(text, host, j)
                  /\ \A h \in i..(j - 1) : ~HostRegExpMatchAt(text, host, h)
       IN  <<j>> \o HostMatchesFrom(text, host, j + Len(host))
  ELSE <<>>

\* text with the `len` characters at each of `starts` replaced by `to`.
RECURSIVE Splice(_, _, _, _, _)
Splice(text, i, starts, len, to) ==
  IF starts = <<>>
  THEN SubSeq(text, i, Len(text))
  ELSE SubSeq(text, i, Head(starts) - 1) \o to
         \o Splice(text, Head(starts) + len, Tail(starts), len, to)

\* value.replace(new RegExp(`(?<!\\.)\\b${from}\\b`, "g"), to)
replaceHost(text, from, to) ==
  Splice(text, 1, HostMatchesFrom(text, from, 1), Len(from), to)

\* ------------------------------------------------------------------------
\* Headers and the values the code reads from them
\* ------------------------------------------------------------------------

\* What Headers.get returns for a header that is absent.
Null == <<"<null>">>

\* A Headers object: a function from the names of the headers present.
get(headers, name) == IF name \in DOMAIN headers THEN headers[name] ELSE Null

has(headers, name) == name \in DOMAIN headers

set(headers, name, value) ==
  [k \in DOMAIN headers \cup {name} |-> IF k = name THEN value ELSE headers[k]]

delete(headers, name) == [k \in DOMAIN headers \ {name} |-> headers[k]]

\* RegExp.prototype.test converts its argument to a string: null is "null".
StringOf(v) == IF v = Null THEN <<"n","u","l","l">> ELSE v

\* ------------------------------------------------------------------------
\* The configured filter patterns: new RegExp(pattern).test(subject)
\*
\* The patterns the model configures are an optional "^", characters that
\* stand for themselves or "." (any character), and an optional "$"; a "("
\* that is never closed is a pattern the RegExp constructor rejects.
\* ------------------------------------------------------------------------

\* new RegExp(pattern) throws a SyntaxError.
RegExpThrows(pattern) ==
  \E i \in DOMAIN pattern :
    /\ pattern[i] = "("
    /\ \A j \in (i + 1)..Len(pattern) : pattern[j] # ")"

AnchoredAtStart(pattern) == Len(pattern) >= 1 /\ pattern[1] = "^"

AnchoredAtEnd(pattern) == Len(pattern) >= 1 /\ pattern[Len(pattern)] = "$"

StripStart(pattern) ==
  IF AnchoredAtStart(pattern) THEN SubSeq(pattern, 2, Len(pattern)) ELSE pattern

StripEnd(pattern) ==
  IF AnchoredAtEnd(pattern) THEN SubSeq(pattern, 1, Len(pattern) - 1) ELSE pattern

PatternBody(pattern) == StripEnd(StripStart(pattern))

\* The pattern matches subject from position i on.
PatternMatchAt(pattern, subject, i) ==
  /\ AnchoredAtStart(pattern) => i = 1
  /\ HostCharsMatchAt(subject, PatternBody(pattern), i)
  /\ AnchoredAtEnd(pattern) => i + Len(PatternBody(pattern)) - 1 = Len(subject)

\* new RegExp(pattern).test(subject), for a pattern the constructor accepts.
RegExpTest(pattern, subject) ==
  \E i \in 1..(Len(subject) + 1) : PatternMatchAt(pattern, subject, i)

\* ------------------------------------------------------------------------
\* isGitHubAPIPath, getGitHubProxyHost
\* ------------------------------------------------------------------------

GitHubHost == <<"g","i","t","h","u","b",".","c","o","m">>

GitHubApiHost == <<"a","p","i",".","g","i","t","h","u","b",".","c","o","m">>

apiPaths ==
  << <<"/","r","e","p","o","s","/">>,
     <<"/","u","s","e","r">>,
     <<"/","u","s","e","r","s","/">>,
     <<"/","o","r","g","s","/">>,
     <<"/","o","r","g","a","n","i","z","a","t","i","o","n","s","/">>,
     <<"/","g","i","s","t","s","/">>,
     <<"/","s","e","a","r","c","h","/">>,
     <<"/","r","a","t","e","_","l","i","m","i","t">>,
     <<"/","e","m","o","j","i","s">>,
     <<"/","e","v","e","n","t","s">>,
     <<"/","f","e","e","d","s">>,
     <<"/","n","o","t","i","f","i","c","a","t","i","o","n","s">>,
     <<"/","m","e","t","a">>,
     <<"/","o","c","t","o","c","a","t">>,
     <<"/","z","e","n">>,
     <<"/","m","a","r","k","e","t","p","l","a","c","e","_","l","i","s","t","i","n","g","/">>,
     <<"/","i","n","s","t","a","l","l","a","t","i","o","n","/">>,
     <<"/","a","p","p","/">>,
     <<"/","a","p","p","l","i","c","a","t","i","o","n","s","/">> >>

\* Array.prototype.some over paths[i..], testing the entries in order.
RECURSIVE someStartsWith(_, _, _)
someStartsWith(paths, pathname, i) ==
  IF i > Len(paths) THEN FALSE
  ELSE IF startsWith(pathname, paths[i]) THEN TRUE
  ELSE someStartsWith(paths, pathname, i + 1)

\* some(path => pathname.includes(path)): the prefix anywhere in the path.
RECURSIVE someIncludes(_, _, _)
someIncludes(paths, pathname, i) ==
  IF i > Len(paths) THEN FALSE
  ELSE IF includes(pathname, paths[i]) THEN TRUE
  ELSE someIncludes(paths, pathname, i + 1)

isGitHubAPIPathAnywhere(pathname) == someIncludes(apiPaths, pathname, 1)

isGitHubAPIPath(pathname) == someStartsWith(apiPaths, pathname, 1)

getGitHubProxyHost(baseHostname, pathname) ==
  IF baseHostname = GitHubHost /\ isGitHubAPIPath(pathname)
  THEN GitHubApiHost
  ELSE baseHostname

\* ------------------------------------------------------------------------
\* createNewRequest, setResponseHeaders, replaceResponseText
\* ------------------------------------------------------------------------

\* One header value of the outbound request.
rewriteRequestHeader(value, proxyHostname, originHostname) ==
  IF includes(value, originHostname)
  THEN replaceHost(value, originHostname, proxyHostname)
  ELSE value

DefaultUserAgent ==
  <<"C","l","o","u","d","f","l","a","r","e","-","W","o","r","k","e","r","s","-","P","r","o","x","y">>

DefaultAccept ==
  <<"a","p","p","l","i","c","a","t","i","o","n","/","v","n","d",".","g","i","t","h","u","b","+","j","s","o","n">>

withGitHubApiHeaders(headers, proxyHostname) ==
  IF proxyHostname = GitHubApiHost
  THEN LET h1 == IF has(headers, "user-agent") THEN headers
                 ELSE set(headers, "user-agent", DefaultUserAgent)
       IN  IF has(h1, "accept") THEN h1 ELSE set(h1, "accept", DefaultAccept)
  ELSE headers

createNewRequest(request, url, proxyHostname, originHostname) ==
  [ url      |-> url,
    method   |-> request.method,
    body     |-> request.body,
    redirect |-> "follow",
    headers  |-> withGitHubApiHeaders(
                  [k \in DOMAIN request.headers |->
                     rewriteRequestHeader(request.headers[k], proxyHostname,
                                          originHostname)],
                  proxyHostname) ]

\* value.replace(new RegExp(..), to) without the "g" flag: the first match
\* only.
replaceHostFirst(text, from, to) ==
  LET all == HostMatchesFrom(text, from, 1)
  IN  Splice(text, 1, IF all = <<>> THEN <<>> ELSE <<Head(all)>>, Len(from), to)

rewriteResponseHeaderFirstOnly(value, proxyHostname, originHostname) ==
  IF includes(value, proxyHostname)
  THEN replaceHostFirst(value, proxyHostname, originHostname)
  ELSE value

\* One header value of the response.
rewriteResponseHeader(value, proxyHostname, originHostname) ==
  IF includes(value, proxyHostname)
  THEN replaceHost(value, proxyHostname, originHostname)
  ELSE value

setResponseHeaders(originalResponse, proxyHostname, originHostname, DEBUG) ==
  LET rewritten ==
        [k \in DOMAIN originalResponse.headers |->
           rewriteResponseHeader(originalResponse.headers[k], proxyHostname,
                                 originHostname)]
  IN  IF DEBUG THEN delete(rewritten, "content-security-policy") ELSE rewritten

\* new RegExp(`((?<!\\.)\\b${host}\\b)(${path})`) matches at position i: the
\* host, then at once the path pattern (its leading "^" already removed).
HostPathRegExpMatchAt(text, host, path, i) ==
  /\ HostRegExpMatchAt(text, host, i)
  /\ HostCharsMatchAt(text, StripEnd(path), i + Len(host))
  /\ AnchoredAtEnd(path) => i + Len(host) + Len(StripEnd(path)) - 1 = Len(text)

RECURSIVE HostPathMatchesFrom(_, _, _, _)
HostPathMatchesFrom(text, host, path, i) ==
  IF \E j \in i..Len(text) : HostPathRegExpMatchAt(text, host, path, j)
  THEN LET j == CHOOSE j \in i..Len(text) :
                  /\ HostPathRegExpMatchAt(text, host, path, j)
                  /\ \A h \in i..(j - 1) :
                       ~HostPathRegExpMatchAt(text, host, path, h)
       IN  <<j>> \o HostPathMatchesFrom(text, host, path,
                                        j + Len(host) + Len(StripEnd(path)))
  ELSE <<>>

\* text.replace(new RegExp(`(host)(path)`, "g"), `${to}$2`): the host is
\* replaced, the path that follows it is kept.
replaceHostBeforePath(text, from, path, to) ==
  Splice(text, 1, HostPathMatchesFrom(text, from, path, 1), Len(from), to)

replaceResponseText(text, proxyHostname, pathnameRegex, originHostname, baseHostname) ==
  LET first ==
        IF pathnameRegex # <<>>
        THEN replaceHostBeforePath(text, proxyHostname,
                                   StripStart(pathnameRegex), originHostname)
        ELSE replaceHost(text, proxyHostname, originHostname)
      otherHost ==
        IF proxyHostname = GitHubApiHost THEN GitHubHost ELSE GitHubApiHost
  IN  IF baseHostname = GitHubHost
      THEN replaceHost(first, otherHost, originHostname)
      ELSE first


\* ------------------------------------------------------------------------
\* The fetch handler
\* ------------------------------------------------------------------------

VARIABLES
  env,              \* the configuration the handler destructures
  request,          \* the incoming request: url, method, headers
  upstream,         \* what the upstream host does with a request sent to it
  pc,               \* the handler's position
  stages,           \* the positions the handler has been at, in order
  originHostname,   \* url.hostname of the incoming request
  actualProxyHost,  \* the host getGitHubProxyHost chose
  newRequest,       \* the outbound request createNewRequest built
  sent,             \* the outbound requests handed to fetch()
  thrown,           \* the position at which an exception was thrown
  responses,        \* the responses the handler returned
  rw                \* the substitution harness (see below)

hvars ==
  <<env, request, upstream, pc, stages, originHostname, actualProxyHost,
    newRequest, sent, thrown, responses>>

vars == <<hvars, rw>>

NginxPage == <<"<!DOCTYPE html> ... Welcome to nginx! ... </html>">>

HtmlContentType ==
  <<"t","e","x","t","/","h","t","m","l",";"," ",
    "c","h","a","r","s","e","t","=","u","t","f","-","8">>

PlainContentType ==
  <<"t","e","x","t","/","p","l","a","i","n",";",
    "c","h","a","r","s","e","t","=","U","T","F","-","8">>

InternalServerError ==
  <<"I","n","t","e","r","n","a","l"," ","S","e","r","v","e","r"," ",
    "E","r","r","o","r">>

\* new Response(await nginx(), {headers: {"Content-Type": ...}})
FallbackResponse ==
  [ status  |-> 200,
    headers |-> [k \in {"content-type"} |-> HtmlContentType],
    body    |-> NginxPage ]

\* Response.redirect parses its url with no base: a string with no scheme
\* is no url, and the call throws a TypeError.
RedirectThrows(url) == ~includes(url, <<":">>)

\* Response.redirect(URL302, 302)
RedirectResponse(url) ==
  [ status  |-> 302,
    headers |-> [k \in {"location"} |-> url],
    body    |-> <<>> ]

\* new Response("Internal Server Error", { status: 500 })
ErrorResponse ==
  [ status  |-> 500,
    headers |-> [k \in {"content-type"} |-> PlainContentType],
    body    |-> InternalServerError ]

\* One operand of the || chain of the access check: `pattern &&
\* [!] new RegExp(pattern).test(subject)`.  "throw" when the RegExp
\* constructor or the evaluation of the argument throws.
FilterTerm(pattern, subject, subjectThrows, allow) ==
  IF pattern = <<>> THEN "false"
  ELSE IF RegExpThrows(pattern) \/ subjectThrows THEN "throw"
  ELSE IF RegExpTest(pattern, subject) = allow THEN "false"
  ELSE "true"

\* request.headers.get("user-agent").toLowerCase(): a TypeError on null.
UserAgentThrows(req) == get(req.headers, "user-agent") = Null

LowerUserAgent(req) ==
  IF UserAgentThrows(req) THEN <<>>
  ELSE toLowerCase(get(req.headers, "user-agent"))

\* The operands of the access check after !PROXY_HOSTNAME, in the order the
\* code evaluates them.
FilterTerms(e, req) ==
  << FilterTerm(e.PATHNAME_REGEX, req.url.pathname, FALSE, TRUE),
     FilterTerm(e.UA_WHITELIST_REGEX, LowerUserAgent(req),
                UserAgentThrows(req), TRUE),
     FilterTerm(e.UA_BLACKLIST_REGEX, LowerUserAgent(req),
                UserAgentThrows(req), FALSE),
     FilterTerm(e.IP_WHITELIST_REGEX,
                StringOf(get(req.headers, "cf-connecting-ip")), FALSE, TRUE),
     FilterTerm(e.IP_BLACKLIST_REGEX,
                StringOf(get(req.headers, "cf-connecting-ip")), FALSE, FALSE),
     FilterTerm(e.REGION_WHITELIST_REGEX,
                StringOf(get(req.headers, "cf-ipcountry")), FALSE, TRUE),
     FilterTerm(e.REGION_BLACKLIST_REGEX,
                StringOf(get(req.headers, "cf-ipcountry")), FALSE, FALSE) >>

\* a || b || ... from operand i on: the first operand that is true or
\* throws decides, and the operands after it are not evaluated.
RECURSIVE OrChain(_, _)
OrChain(terms, i) ==
  IF i > Len(terms) THEN "false"
  ELSE IF terms[i] = "false" THEN OrChain(terms, i + 1)
  ELSE terms[i]

\* The access check with !PROXY_HOSTNAME tested after the filters, not
\* before them.
AccessCheckHostLast(e, req) ==
  LET r == OrChain(FilterTerms(e, req), 1)
  IN  IF r = "true" THEN "Reject"
      ELSE IF r = "throw" THEN "Throw"
      ELSE IF e.PROXY_HOSTNAME = <<>> THEN "Reject"
      ELSE "Accept"

\* The condition of the `if` at lines 201-228: "Reject" when it is true,
\* "Accept" when it is false, "Throw" when its evaluation throws.
AccessCheck(e, req) ==
  IF e.PROXY_HOSTNAME = <<>> THEN "Reject"
  ELSE LET r == OrChain(FilterTerms(e, req), 1)
       IN  IF r = "true" THEN "Reject"
           ELSE IF r = "throw" THEN "Throw"
           ELSE "Accept"

\* contentType.includes("text/") alone.
IsTextContentTypeNoJson(contentType) ==
  includes(contentType, <<"t","e","x","t","/">>)

\* contentType.includes("text/") || contentType.includes("application/json")
IsTextContentType(contentType) ==
  \/ includes(contentType, <<"t","e","x","t","/">>)
  \/ includes(contentType,
              <<"a","p","p","l","i","c","a","t","i","o","n","/","j","s","o","n">>)

\* Lines 250-273: the response built from the upstream response.
ProxiedResponse(e, originalResponse, proxyHost, origin) ==
  LET newResponseHeaders ==
        setResponseHeaders(originalResponse, proxyHost, origin, e.DEBUG)
      contentType ==
        IF has(newResponseHeaders, "content-type")
        THEN newResponseHeaders["content-type"]
        ELSE <<>>
  IN  [ status  |-> originalResponse.status,
        headers |-> newResponseHeaders,
        body    |-> IF IsTextContentType(contentType)
                    THEN replaceResponseText(originalResponse.body, proxyHost,
                                             e.PATHNAME_REGEX, origin,
                                             e.PROXY_HOSTNAME)
                    ELSE originalResponse.body ]

\* await originalResponse.text() rejects: the body cannot be read.
ResponseThrows(e, originalResponse, proxyHost, origin) ==
  LET h == setResponseHeaders(originalResponse, proxyHost, origin, e.DEBUG)
  IN  /\ has(h, "content-type")
      /\ IsTextContentType(h["content-type"])
      /\ ~originalResponse.readable

\* The handler moves on to `next`, or into the catch block when the step
\* throws.
Advance(next, throws) ==
  /\ pc' = IF throws THEN "Failed" ELSE next
  /\ stages' = Append(stages, IF throws THEN "Failed" ELSE next)
  /\ thrown' = IF throws THEN pc ELSE thrown

\* Lines 186-200: the configuration is destructured and the url parsed.
Start ==
  /\ pc = "Start"
  /\ originHostname' = request.url.hostname
  /\ Advance("Filtering", FALSE)
  /\ UNCHANGED <<env, request, upstream, actualProxyHost, newRequest, sent,
                 responses, rw>>

\* Lines 201-228: the access check.
Filter ==
  /\ pc = "Filtering"
  /\ LET decision == AccessCheck(env, request)
     IN  Advance(IF decision = "Reject" THEN "Rejected" ELSE "Resolving",
                 decision = "Throw")
  /\ UNCHANGED <<env, request, upstream, originHostname, actualProxyHost,
                 newRequest, sent, responses, rw>>

\* The reject branch without its `return`: the fallback is answered and the
\* handler goes on to proxy the request.
RejectFallsThrough ==
  /\ pc = "Rejected"
  /\ responses' = Append(responses, FallbackResponse)
  /\ Advance("Resolving", FALSE)
  /\ UNCHANGED <<env, request, upstream, originHostname, actualProxyHost,
                 newRequest, sent, rw>>

\* URL302 ? Response.redirect(URL302, 302) : new Response(await nginx(), ..)
RejectResponse(e) ==
  IF e.URL302 # <<>> THEN RedirectResponse(e.URL302) ELSE FallbackResponse

RejectThrows(e) == e.URL302 # <<>> /\ RedirectThrows(e.URL302)

\* Lines 229-236: the fallback page, or the redirect to URL302.
Reject ==
  /\ pc = "Rejected"
  /\ responses' = IF RejectThrows(env) THEN responses
                  ELSE Append(responses, RejectResponse(env))
  /\ Advance("Done", RejectThrows(env))
  /\ UNCHANGED <<env, request, upstream, originHostname, actualProxyHost,
                 newRequest, sent, rw>>

\* Line 239: the upstream host is chosen.
Resolve ==
  /\ pc = "Resolving"
  /\ actualProxyHost' =
       getGitHubProxyHost(env.PROXY_HOSTNAME, request.url.pathname)
  /\ Advance("Building", FALSE)
  /\ UNCHANGED <<env, request, upstream, originHostname, newRequest, sent,
                 responses, rw>>

\* Lines 241-248: the outbound request is built.
Build ==
  /\ pc = "Building"
  /\ newRequest' =
       createNewRequest(request,
                        [ protocol |-> env.PROXY_PROTOCOL,
                          hostname |-> actualProxyHost,
                          pathname |-> request.url.pathname ],
                        actualProxyHost, originHostname)
  /\ Advance("Fetching", FALSE)
  /\ UNCHANGED <<env, request, upstream, originHostname, actualProxyHost,
                 sent, responses, rw>>

\* Line 249, the call: fetch(newRequest) sends the outbound request.
Fetch ==
  /\ pc = "Fetching"
  /\ sent' = Append(sent, newRequest)
  /\ Advance("Awaiting", FALSE)
  /\ UNCHANGED <<env, request, upstream, originHostname, actualProxyHost,
                 newRequest, responses, rw>>

\* Line 249, the await: the promise is fulfilled with the upstream's
\* response, or rejected.
Settle ==
  /\ pc = "Awaiting"
  /\ Advance("Responding", ~upstream.answers)
  /\ UNCHANGED <<env, request, upstream, originHostname, actualProxyHost,
                 newRequest, sent, responses, rw>>

\* Lines 250-273: headers and body are rewritten, the response returned.
Respond ==
  /\ pc = "Responding"
  /\ LET throws ==
           ResponseThrows(env, upstream, actualProxyHost, originHostname)
     IN  /\ responses' =
              IF throws THEN responses
              ELSE Append(responses,
                          ProxiedResponse(env, upstream, actualProxyHost,
                                          originHostname))
         /\ Advance("Done", throws)
  /\ UNCHANGED <<env, request, upstream, originHostname, actualProxyHost,
                 newRequest, sent, rw>>

\* new Response("Internal Server Error") with no status: a 200.
CatchResponseNoStatus == [ErrorResponse EXCEPT !.status = 200]

\* Lines 274-277: the catch block returns the 500.
CatchResponse == ErrorResponse

Catch ==
  /\ pc = "Failed"
  /\ responses' = Append(responses, CatchResponse)
  /\ pc' = "Done"
  /\ stages' = Append(stages, "Done")
  /\ UNCHANGED <<env, request, upstream, originHostname, actualProxyHost,
                 newRequest, sent, thrown, rw>>

\* ------------------------------------------------------------------------
\* The substitution harness: the three places the code builds the host-name
\* regular expression, each applied to one text
\* ------------------------------------------------------------------------

\* Lines 57-67 on one header value: `from` is the origin host, `to` the
\* upstream host.
RewriteOutbound ==
  /\ rw.step = "new"
  /\ rw' = [rw EXCEPT !.step = "outbound",
                      !.out = rewriteRequestHeader(rw.text, rw.to, rw.from)]
  /\ UNCHANGED hvars

\* Lines 96-106 on the value the outbound substitution produced: the
\* upstream host `to` is rewritten back to the origin host `from`.
RewriteInbound ==
  /\ rw.step = "outbound"
  /\ rw' = [rw EXCEPT !.step = "inbound",
                      !.back = rewriteResponseHeader(rw.out, rw.to, rw.from)]
  /\ UNCHANGED hvars

\* Lines 129-154 on one body, with no PATHNAME_REGEX and an upstream that is
\* not github.com: `from` is the upstream host, `to` the origin host.
RewriteBody ==
  /\ rw.step = "new"
  /\ rw' = [rw EXCEPT !.step = "body",
                      !.out = replaceResponseText(rw.text, rw.from, <<>>,
                                                  rw.to, <<>>)]
  /\ UNCHANGED hvars

NextRewrite ==
  \/ RewriteOutbound
  \/ RewriteInbound
  \/ RewriteBody

Next ==
  \/ Start
  \/ Filter
  \/ Reject
  \/ Resolve
  \/ Build
  \/ Fetch
  \/ Settle
  \/ Respond
  \/ Catch

\* ------------------------------------------------------------------------
\* Inputs
\* ------------------------------------------------------------------------

OriginHost == <<"x",".","e","x","a","m","p","l","e">>

OtherUpstream == <<"e","x","a","m","p","l","e",".","o","r","g">>

Https == <<"h","t","t","p","s",":","/","/">>

ReposPath == <<"/","r","e","p","o","s","/","o","/","r">>

AboutPath == <<"/","a","b","o","u","t">>

ReposPattern == <<"^","/","r","e","p","o","s">>

Malformed == <<"(">>

MkEnv(host, url302, path, uaw, uab, ipw, ipb, regw, regb, debug) ==
  [ PROXY_HOSTNAME         |-> host,
    PROXY_PROTOCOL         |-> "https",
    PATHNAME_REGEX         |-> path,
    UA_WHITELIST_REGEX     |-> uaw,
    UA_BLACKLIST_REGEX     |-> uab,
    URL302                 |-> url302,
    IP_WHITELIST_REGEX     |-> ipw,
    IP_BLACKLIST_REGEX     |-> ipb,
    REGION_WHITELIST_REGEX |-> regw,
    REGION_BLACKLIST_REGEX |-> regb,
    DEBUG                  |-> debug ]

\* The headers among `all` that are present (not Null).
Present(all) == [k \in {k \in DOMAIN all : all[k] # Null} |-> all[k]]

MkRequest(pathname, ua, ip, country, referer) ==
  [ url     |-> [ protocol |-> "https", hostname |-> OriginHost,
                  pathname |-> pathname ],
    method  |-> "GET",
    body    |-> Null,
    headers |-> Present([k \in {"user-agent", "cf-connecting-ip",
                                "cf-ipcountry", "referer"} |->
                           CASE k = "user-agent" -> ua
                             [] k = "cf-connecting-ip" -> ip
                             [] k = "cf-ipcountry" -> country
                             [] OTHER -> referer]) ]

MkUpstream(answers, status, contentType, location, csp, body, readable) ==
  [ answers  |-> answers,
    status   |-> status,
    headers  |-> Present([k \in {"content-type", "location",
                                 "content-security-policy"} |->
                            CASE k = "content-type" -> contentType
                              [] k = "location" -> location
                              [] OTHER -> csp]),
    body     |-> body,
    readable |-> readable ]

IdleRewrite ==
  [ step |-> "idle", text |-> <<>>, from |-> <<>>, to |-> <<>>,
    out |-> <<>>, back |-> <<>> ]

\* The handler is called with one of the configurations Envs, one of the
\* requests Requests, facing one of the upstreams Upstreams.
InitHandler(Envs, Requests, Upstreams) ==
  /\ env \in Envs
  /\ request \in Requests
  /\ upstream \in Upstreams
  /\ pc = "Start"
  /\ stages = <<"Start">>
  /\ originHostname = <<>>
  /\ actualProxyHost = <<>>
  /\ newRequest = <<>>
  /\ sent = <<>>
  /\ thrown = "none"
  /\ responses = <<>>
  /\ rw = IdleRewrite

Mozilla == <<"M","o","z","i","l","l","a","/","5",".","0">>

GoogleBot == <<"G","o","o","g","l","e","B","o","t">>

ClientIp == <<"1",".","2",".","3",".","4">>

RefererValue == Https \o OriginHost \o AboutPath

ValidUrl302 == Https \o OtherUpstream \o <<"/">>

\* A redirect target written without its scheme.
SchemelessUrl302 == OtherUpstream

JsonContentType ==
  <<"a","p","p","l","i","c","a","t","i","o","n","/","j","s","o","n",";"," ",
    "c","h","a","r","s","e","t","=","u","t","f","-","8">>

PngContentType == <<"i","m","a","g","e","/","p","n","g">>

PlainBody == <<"n","o"," ","h","o","s","t">>

\* "visit api.github.com and github.com"
VisitBody ==
  <<"v","i","s","i","t"," ">> \o GitHubApiHost \o <<" ","a","n","d"," ">>
    \o GitHubHost

\* The configurations, requests and upstreams of the default specification:
\* every stage of the handler, and every place it can throw.
Envs ==
  { MkEnv(host, url302, path, uaw, <<>>, <<>>, <<>>, <<>>, <<>>, FALSE) :
      host \in {<<>>, GitHubHost, OtherUpstream},
      url302 \in {<<>>, ValidUrl302, SchemelessUrl302},
      path \in {<<>>, ReposPattern},
      uaw \in {<<>>, <<"m","o","z">>, Malformed} }

Requests ==
  { MkRequest(pathname, ua, ClientIp, <<"C","N">>, RefererValue) :
      pathname \in {ReposPath, AboutPath},
      ua \in {Null, Mozilla} }

Upstreams ==
  { MkUpstream(FALSE, 200, Null, Null, Null, <<>>, TRUE) }
  \cup
  { MkUpstream(TRUE, status, contentType, Null, Null, VisitBody, readable) :
      status \in {200, 404},
      contentType \in {HtmlContentType, PngContentType},
      readable \in BOOLEAN }

Init == InitHandler(Envs, Requests, Upstreams)

Spec == Init /\ [][Next]_vars

\* The runtime settles every fetch and runs every continuation: the handler
\* is never left suspended for ever.
FairSpec == Spec /\ WF_vars(Next)

\* ------------------------------------------------------------------------
\* The substitution on its own: every text of at most MaxTokens tokens
\* ------------------------------------------------------------------------

\* "githubXcom": github.com with its dot replaced by a letter.
GitHubXcom == <<"g","i","t","h","u","b","X","c","o","m">>

Tokens ==
  { GitHubHost, OriginHost, GitHubXcom, <<".">>, <<"-">>, <<"n">>, <<" ">>,
    <<"/">> }

RECURSIVE TextsOf(_)
TextsOf(n) ==
  IF n = 0 THEN {<<>>}
  ELSE {t \o tok : t \in TextsOf(n - 1), tok \in Tokens}

Texts == UNION {TextsOf(n) : n \in 0..MaxTokens}

\* <<from, to>>
HostPairs == {<<GitHubHost, OriginHost>>, <<OriginHost, GitHubHost>>}

InitRewrite ==
  /\ env = MkEnv(<<>>, <<>>, <<>>, <<>>, <<>>, <<>>, <<>>, <<>>, <<>>, FALSE)
  /\ request = MkRequest(AboutPath, Null, Null, Null, Null)
  /\ upstream = MkUpstream(FALSE, 200, Null, Null, Null, <<>>, TRUE)
  /\ pc = "Idle"
  /\ stages = <<>>
  /\ originHostname = <<>>
  /\ actualProxyHost = <<>>
  /\ newRequest = <<>>
  /\ sent = <<>>
  /\ thrown = "none"
  /\ responses = <<>>
  /\ rw \in { [ step |-> "new", text |-> t, from |-> p[1], to |-> p[2],
                out |-> <<>>, back |-> <<>> ] : t \in Texts, p \in HostPairs }

SpecRewrite == InitRewrite /\ [][NextRewrite]_vars

\* ------------------------------------------------------------------------
\* The access check on its own: every subset of the seven filters, every
\* subset of the three headers they read
\* ------------------------------------------------------------------------

EnvsAccess ==
  { MkEnv(host, url302, path, uaw, uab, ipw, ipb, regw, regb, FALSE) :
      host \in {<<>>, GitHubHost},
      url302 \in {<<>>, ValidUrl302, SchemelessUrl302},
      path \in {<<>>, ReposPattern},
      uaw \in {<<>>, <<"m","o","z">>, Malformed},
      uab \in {<<>>, <<"b","o","t">>},
      ipw \in {<<>>, <<"^","1">>},
      ipb \in {<<>>, <<"^","9">>},
      regw \in {<<>>, <<"^","C","N","$">>},
      regb \in {<<>>, <<".">>} }

RequestsAccess ==
  { MkRequest(pathname, ua, ip, country, Null) :
      pathname \in {ReposPath, AboutPath},
      ua \in {Null, Mozilla, GoogleBot},
      ip \in {Null, ClientIp},
      country \in {Null, <<"C","N">>} }

UpstreamsAccess ==
  { MkUpstream(TRUE, 200, HtmlContentType, Null, Null, PlainBody, TRUE) }

InitAccess == InitHandler(EnvsAccess, RequestsAccess, UpstreamsAccess)

SpecAccess == InitAccess /\ [][Next]_vars

\* ------------------------------------------------------------------------
\* Host resolution on its own: every API prefix, cut short, extended,
\* capitalised, and away from the start of the path
\* ------------------------------------------------------------------------

toUpperCaseChar(c) ==
  IF \E i \in DOMAIN LowerCase : LowerCase[i] = c
  THEN UpperCase[CHOOSE i \in DOMAIN LowerCase : LowerCase[i] = c]
  ELSE c

\* The prefix with its first letter in upper case: "/Repos/".
Capitalised(prefix) ==
  [i \in DOMAIN prefix |-> IF i = 2 THEN toUpperCaseChar(prefix[i]) ELSE prefix[i]]

PathsResolve ==
  {<<>>, <<"/">>, AboutPath}
  \cup Range(apiPaths)
  \cup { p \o <<"o","/","r">> : p \in Range(apiPaths) }
  \cup { SubSeq(p, 1, Len(p) - 1) : p \in Range(apiPaths) }
  \cup { Capitalised(p) : p \in Range(apiPaths) }
  \cup { <<"/","o">> \o p : p \in Range(apiPaths) }

EnvsResolve ==
  { MkEnv(host, <<>>, <<>>, <<>>, uab, <<>>, <<>>, <<>>, <<>>, FALSE) :
      host \in {GitHubHost, GitHubApiHost, OtherUpstream},
      uab \in {<<>>, <<"b","o","t">>} }

RequestsResolve ==
  { MkRequest(pathname, ua, ClientIp, <<"C","N">>, Null) :
      pathname \in PathsResolve,
      ua \in {Null, GoogleBot} }

UpstreamsResolve ==
  { MkUpstream(TRUE, 200, JsonContentType, Null, Null, PlainBody, TRUE) }

InitResolve == InitHandler(EnvsResolve, RequestsResolve, UpstreamsResolve)

SpecResolve == InitResolve /\ [][Next]_vars

\* ------------------------------------------------------------------------
\* The response on its own: every content type, status and body
\* ------------------------------------------------------------------------

\* "https://github.com/repos/o/r"
RepoLinkBody == Https \o GitHubHost \o ReposPath

ContentTypes ==
  { Null,
    <<"t","e","x","t","/","h","t","m","l">>,
    HtmlContentType,
    <<"a","p","p","l","i","c","a","t","i","o","n","/","j","s","o","n">>,
    JsonContentType,
    PngContentType,
    <<"a","p","p","l","i","c","a","t","i","o","n","/",
      "o","c","t","e","t","-","s","t","r","e","a","m">> }

EnvsProxy ==
  { MkEnv(host, <<>>, path, <<>>, <<"b","o","t">>, <<>>, <<>>, <<>>, <<>>, debug) :
      host \in {GitHubHost, OtherUpstream},
      path \in {<<>>, ReposPattern},
      debug \in BOOLEAN }

RequestsProxy ==
  { MkRequest(pathname, ua, ClientIp, <<"C","N">>, RefererValue) :
      pathname \in {ReposPath, AboutPath},
      ua \in {Mozilla, GoogleBot} }

UpstreamsProxy ==
  { MkUpstream(FALSE, 200, Null, Null, Null, <<>>, TRUE) }
  \cup
  { MkUpstream(TRUE, status, contentType, location, csp, body, readable) :
      status \in {200, 404},
      contentType \in ContentTypes,
      location \in {Null, Https \o GitHubHost \o AboutPath},
      csp \in {Null, <<"d","e","f","a","u","l","t","-","s","r","c"," ">>
                       \o GitHubHost},
      body \in {PlainBody, VisitBody, RepoLinkBody},
      readable \in BOOLEAN }

InitProxy == InitHandler(EnvsProxy, RequestsProxy, UpstreamsProxy)

SpecProxy == InitProxy /\ [][Next]_vars

\* ------------------------------------------------------------------------
\* The substitution: C3, C4, C9 (under SpecRewrite)
\* ------------------------------------------------------------------------

\* The characters a host label is made of.
LabelChars == Range(LowerCase) \cup Range(UpperCase) \cup Range(Digits) \cup {"-"}

\* The occurrences of `host` in text that are the tail of a longer label or
\* host name: those preceded by a dot or by a label character.
SuffixOccurrences(text, host) ==
  { i \in 2..Len(text) :
      OccursAt(text, host, i) /\ text[i - 1] \in LabelChars \cup {"."} }

\* C3: the substitution of rw.from by rw.to, in a request header and in a
\* body, leaves every occurrence of rw.from that is preceded by a dot, a
\* letter, a digit or a hyphen as it is: the text it produces holds as many
\* such occurrences as the text it was given.
C3_SuffixOccurrencesKept ==
  rw.step \in {"outbound", "body"} =>
    Cardinality(SuffixOccurrences(rw.out, rw.from))
      >= Cardinality(SuffixOccurrences(rw.text, rw.from))

\* `host` occurs at i, letter for letter, as a whole word not preceded by a
\* dot.
LiteralWordAt(text, host, i) ==
  /\ OccursAt(text, host, i)
  /\ NotPrecededByDot(text, i)
  /\ WordBoundary(text, i)
  /\ WordBoundary(text, i + Len(host))

RECURSIVE LiteralWordsFrom(_, _, _)
LiteralWordsFrom(text, host, i) ==
  IF \E j \in i..Len(text) : LiteralWordAt(text, host, j)
  THEN LET j == CHOOSE j \in i..Len(text) :
                  /\ LiteralWordAt(text, host, j)
                  /\ \A h \in i..(j - 1) : ~LiteralWordAt(text, host, h)
       IN  <<j>> \o LiteralWordsFrom(text, host, j + Len(host))
  ELSE <<>>

\* text with exactly its whole-word occurrences of the literal string `from`
\* that are not preceded by a dot replaced by `to`.
LiteralReplace(text, from, to) ==
  Splice(text, 1, LiteralWordsFrom(text, from, 1), Len(from), to)

\* C4: what the substitution replaces, in a body and in a response header,
\* is exactly the whole-word occurrences of the literal string not preceded
\* by a dot, all of them and nothing else: a "." of the host name stands for
\* a dot only.
C4_ReplacesExactlyLiteral ==
  /\ rw.step = "body" => rw.out = LiteralReplace(rw.text, rw.from, rw.to)
  /\ rw.step = "inbound" => rw.back = LiteralReplace(rw.out, rw.to, rw.from)

\* Every occurrence of `host` in text is a whole word not preceded by a dot.
AllOccurrencesWholeWord(text, host) ==
  \A i \in 1..Len(text) : OccursAt(text, host, i) => LiteralWordAt(text, host, i)

OutboundStarts(text, from) ==
  IF includes(text, from) THEN HostMatchesFrom(text, from, 1) ELSE <<>>

InsertedAt(text, from, to) ==
  { OutboundStarts(text, from)[k] + (k - 1) * (Len(to) - Len(from)) :
      k \in DOMAIN OutboundStarts(text, from) }

\* The rewritten value holds `to` only where the outbound substitution put
\* it: the inbound pattern matches nowhere else.
OnlyInserted(text, out, from, to) ==
  { j \in 1..Len(out) : HostRegExpMatchAt(out, to, j) }
    = InsertedAt(text, from, to)

\* Everything the outbound pattern matches is rw.from letter for letter.
MatchesAreLiteral(text, from) ==
  \A i \in 1..Len(text) :
    HostRegExpMatchAt(text, from, i) => OccursAt(text, from, i)

Decided == Len(stages) >= 3

Accepted == Decided /\ stages[3] = "Resolving"

\* The value a filter is matched against when a missing header counts as the
\* empty string.
OrEmpty(v) == IF v = Null THEN <<>> ELSE v

Allowed(pattern, subject) == pattern = <<>> \/ RegExpTest(pattern, subject)

Denied(pattern, subject) == pattern # <<>> /\ RegExpTest(pattern, subject)

\* The request satisfies every filter that is configured.
SatisfiesFilters(e, req) ==
  LET ua      == toLowerCase(OrEmpty(get(req.headers, "user-agent")))
      ip      == OrEmpty(get(req.headers, "cf-connecting-ip"))
      country == OrEmpty(get(req.headers, "cf-ipcountry"))
  IN  /\ Allowed(e.PATHNAME_REGEX, req.url.pathname)
      /\ Allowed(e.UA_WHITELIST_REGEX, ua)
      /\ ~Denied(e.UA_BLACKLIST_REGEX, ua)
      /\ Allowed(e.IP_WHITELIST_REGEX, ip)
      /\ ~Denied(e.IP_BLACKLIST_REGEX, ip)
      /\ Allowed(e.REGION_WHITELIST_REGEX, country)
      /\ ~Denied(e.REGION_BLACKLIST_REGEX, country)

FilterNames ==
  { "PATHNAME_REGEX", "UA_WHITELIST_REGEX", "UA_BLACKLIST_REGEX",
    "IP_WHITELIST_REGEX", "IP_BLACKLIST_REGEX", "REGION_WHITELIST_REGEX",
    "REGION_BLACKLIST_REGEX" }

WellFormedFilters(e) == \A f \in FilterNames : ~RegExpThrows(e[f])

\* C1: with PROXY_HOSTNAME set (and patterns the RegExp constructor takes),
\* the access check accepts exactly the requests that satisfy every
\* configured filter, a missing header counting as the empty string; and
\* configuring one more filter never turns a request that was not accepted
\* into an accepted one.
C1_AcceptsIffAllFiltersSatisfied ==
  (env.PROXY_HOSTNAME # <<>> /\ WellFormedFilters(env) /\ Decided)
    => /\ Accepted <=> SatisfiesFilters(env, request)
       /\ \A f \in FilterNames, p \in {<<"b","o","t">>, <<"^","1">>, <<".">>} :
            (env[f] = <<>>
              /\ AccessCheck([env EXCEPT ![f] = p], request) = "Accept")
              => AccessCheck(env, request) = "Accept"

\* C2, as claimed: with PROXY_HOSTNAME unset no outbound request is sent and
\* the one response is the fallback page (200) or, with URL302 set, the 302
\* redirect to it: never the 500.
C2_FallbackAsClaimed ==
  env.PROXY_HOSTNAME = <<>>
    => /\ sent = <<>>
       /\ pc = "Done" =>
            responses = << IF env.URL302 # <<>>
                           THEN RedirectResponse(env.URL302)
                           ELSE FallbackResponse >>

\* C2, amended: with PROXY_HOSTNAME unset, whatever the headers and the
\* filters, the request is never accepted and no outbound request is sent;
\* the one response is the fallback page (200) with URL302 unset, the 302
\* redirect with URL302 a url, and the 500 with URL302 set to a string with
\* no scheme, which Response.redirect does not take.
C2_FallbackOnMissingHost ==
  env.PROXY_HOSTNAME = <<>>
    => /\ sent = <<>>
       /\ ~Accepted
       /\ pc = "Done" =>
            responses = << IF env.URL302 = <<>> THEN FallbackResponse
                           ELSE IF includes(env.URL302, <<":">>)
                             THEN RedirectResponse(env.URL302)
                           ELSE [ status  |-> 500,
                                  headers |-> [k \in {"content-type"} |->
                                                 PlainContentType],
                                  body    |-> InternalServerError ] >>

\* C2's case: no PROXY_HOSTNAME, a user-agent filter configured, a request
\* without user-agent, cf-connecting-ip and cf-ipcountry, answered with the
\* fallback page.
C2_Witness ==
  /\ env.PROXY_HOSTNAME = <<>>
  /\ env.UA_WHITELIST_REGEX # <<>>
  /\ env.IP_WHITELIST_REGEX # <<>>
  /\ DOMAIN request.headers = {}
  /\ pc = "Done"
  /\ responses = <<FallbackResponse>>

\* A header a configured filter reads is missing from the request.
MissingFilterInput(e, req) ==
  \/ /\ ~has(req.headers, "user-agent")
     /\ e.UA_WHITELIST_REGEX # <<>> \/ e.UA_BLACKLIST_REGEX # <<>>
  \/ /\ ~has(req.headers, "cf-connecting-ip")
     /\ e.IP_WHITELIST_REGEX # <<>> \/ e.IP_BLACKLIST_REGEX # <<>>
  \/ /\ ~has(req.headers, "cf-ipcountry")
     /\ e.REGION_WHITELIST_REGEX # <<>> \/ e.REGION_BLACKLIST_REGEX # <<>>

\* C8: with PROXY_HOSTNAME set, a request that lacks a header a configured
\* filter reads is rejected or accepted, as matching the empty string
\* against the filters decides, and the access check never throws on it.
C8_MissingHeaderIsEmptyString ==
  (/\ env.PROXY_HOSTNAME # <<>>
   /\ WellFormedFilters(env)
   /\ MissingFilterInput(env, request)
   /\ Decided)
    => /\ stages[3] \in {"Rejected", "Resolving"}
       /\ thrown # "Filtering"
       /\ stages[3] = "Resolving" <=> SatisfiesFilters(env, request)

\* ------------------------------------------------------------------------
\* Host resolution: C5 (under SpecResolve)
\* ------------------------------------------------------------------------

Reverse(seq) == [i \in DOMAIN seq |-> seq[Len(seq) + 1 - i]]

\* C5: the host the handler resolves is api.github.com exactly when
\* PROXY_HOSTNAME is github.com and the path starts, letter for letter, with
\* one of the API prefixes, and PROXY_HOSTNAME otherwise: a function of the
\* two alone, and the same with the prefixes tested in the reverse order.
C5_ResolveIsPrefixTest ==
  Len(stages) >= 4 /\ stages[4] = "Building"
    => /\ actualProxyHost =
            IF /\ env.PROXY_HOSTNAME = GitHubHost
               /\ \E p \in Range(apiPaths) : startsWith(request.url.pathname, p)
            THEN GitHubApiHost
            ELSE env.PROXY_HOSTNAME
       /\ isGitHubAPIPath(request.url.pathname)
            = someStartsWith(Reverse(apiPaths), request.url.pathname, 1)

\* C5's case: github.com and an API path resolved to api.github.com.
C5_Witness ==
  /\ pc = "Building"
  /\ env.PROXY_HOSTNAME = GitHubHost
  /\ request.url.pathname = <<"/","u","s","e","r","s","/","o","/","r">>
  /\ actualProxyHost = GitHubApiHost

\* ------------------------------------------------------------------------
\* The response: C6 (under SpecProxy)
\* ------------------------------------------------------------------------

\* The media type of a content-type value: what precedes its parameters.
RECURSIVE MediaType(_)
MediaType(contentType) ==
  IF contentType = <<>> \/ Head(contentType) = ";" THEN <<>>
  ELSE <<Head(contentType)>> \o MediaType(Tail(contentType))

\* The content type names a text or a JSON payload.
IsTextOrJson(contentType) ==
  /\ contentType # Null
  /\ \/ startsWith(MediaType(contentType), <<"t","e","x","t","/">>)
     \/ MediaType(contentType)
          = <<"a","p","p","l","i","c","a","t","i","o","n","/","j","s","o","n">>

\* The handler answered with the upstream's response.
Proxied == pc = "Done" /\ thrown = "none" /\ Accepted

C7_FaultsEndIn500 ==
  /\ Len(responses) <= 1
  /\ thrown # "none" => pc \in {"Failed", "Done"}
  /\ pc = "Failed" => thrown # "none" /\ responses = <<>>
  /\ (thrown # "none" /\ pc = "Done") =>
       /\ Len(responses) = 1
       /\ responses[1].status = 500
       /\ responses[1].body = InternalServerError

\* C7's case: the upstream has answered and its body cannot be read; the
\* request ends with the 500.
C7_Witness ==
  /\ thrown = "Responding"
  /\ pc = "Done"
  /\ Len(sent) = 1
  /\ responses[1].status = 500

IsPrefix(s, t) == Len(s) <= Len(t) /\ SubSeq(t, 1, Len(s)) = s

ProxyPath ==
  <<"Start", "Filtering", "Resolving", "Building", "Fetching", "Awaiting",
    "Responding", "Done">>

RejectPath == <<"Start", "Filtering", "Rejected", "Done">>

\* The positions so far are the start of the proxy path or of the reject
\* path, left at most once for the catch block.
InOrder(s) ==
  \/ IsPrefix(s, ProxyPath)
  \/ IsPrefix(s, RejectPath)
  \/ \E k \in 2..Len(s) :
       /\ s[k] = "Failed"
       /\ s[k - 1] # "Done"
       /\ \/ IsPrefix(SubSeq(s, 1, k - 1), ProxyPath)
          \/ IsPrefix(SubSeq(s, 1, k - 1), RejectPath)
       /\ IsPrefix(SubSeq(s, k + 1, Len(s)), <<"Done">>)

\* The order of the stages, and the outbound request sent at most once and
\* only on the proxy path, after the host is resolved and the request built.
StagesInOrder ==
  /\ InOrder(stages)
  /\ pc = stages[Len(stages)]
  /\ Len(sent) <= 1
  /\ sent # <<>> =>
       /\ IsPrefix(<<"Start", "Filtering", "Resolving", "Building",
                     "Fetching", "Awaiting">>, stages)
       /\ sent[1].url.hostname = actualProxyHost
  /\ pc = "Done" => Len(responses) = 1

\* C10, as claimed: the stages come in order, and a rejected request ends
\* with the fallback page (200) or the 302 redirect, no outbound request
\* sent.
C10_OrderAsClaimed ==
  /\ StagesInOrder
  /\ (Len(stages) >= 3 /\ stages[3] = "Rejected") =>
       /\ sent = <<>>
       /\ pc = "Done" => responses[1].status \in {200, 302}

\* C10, amended: the stages come in order; the outbound request is sent at
\* most once, after the access check accepted, the host was resolved and the
\* request built; a rejected request sends none and ends with the fallback
\* page (200), the 302 redirect, or the 500 when URL302 is set to a string
\* Response.redirect does not take; and every request ends, with one
\* response: the handler has a next step wherever it has not returned, and
\* the order of the stages bounds the number of steps it takes.
C10_Order ==
  /\ StagesInOrder
  /\ (Len(stages) >= 3 /\ stages[3] = "Rejected") =>
       /\ sent = <<>>
       /\ pc = "Done" =>
            responses[1].status =
              IF env.URL302 = <<>> THEN 200
              ELSE IF includes(env.URL302, <<":">>) THEN 302
              ELSE 500
  /\ pc = "Done" \/ ENABLED Next

\* C10's case: a request accepted, its outbound request sent once, answered
\* with the upstream's response.
C10_Witness ==
  /\ stages = ProxyPath
  /\ Len(sent) = 1
  /\ Len(responses) = 1
  /\ responses[1].status = upstream.status

====
